---- MODULE Spec2Model ----
(***************************************************************************)
(* A model of the vector index of the CV question-answering service:      *)
(* services/faiss_index.py (class FAISSIndex) together with the two files  *)
(* it persists to.  One FAISSIndex instance lives in memory; constructing  *)
(* a new instance (Load) replaces it by what the constructor reads from    *)
(* disk.  The routes (routes/upload.py, routes/query.py) construct one     *)
(* FAISSIndex per request: their requests hold their own instance (reqs).  *)
(***************************************************************************)
EXTENDS Integers, Sequences, FiniteSets, TLC

(* ------------------------------ bounds --------------------------------- *)
\* The model's index dimension (the code's is 1536, faiss_index.py:43).
Dim == 2
\* The model follows an index up to MaxVectors rows and MaxVectors ids.
MaxVectors == 2
\* Longest list given to add_batch.
MaxBatch == 2
\* Largest k given to search.
MaxK == 2

(* ------------------------------ values --------------------------------- *)
\* Python's None.
NoneVal == "None"

\* The candidate identifiers a caller uses.
Candidates == {"A", "B"}

\* A 1-D embedding of the index dimension: the point a on the first axis.
Vec(a) == [i \in 1..Dim |-> IF i = 1 THEN a ELSE 0]

\* The first coordinates of the embeddings callers supply.
Coords == {0, 1}

\* Embeddings of the index dimension.
GoodEmb == {Vec(a) : a \in Coords}

\* An embedding one coordinate longer than the index dimension.
BadEmb == {[i \in 1..(Dim + 1) |-> 0]}

Embeddings == GoodEmb \cup BadEmb

\* numpy arrays handed to add_vector: 1-D (a vector) or 2-D (rows of vectors).
Array1(v) == [ndim |-> 1, rows |-> <<v>>]
Array2(v, w) == [ndim |-> 2, rows |-> <<v, w>>]
Arrays == {Array1(v) : v \in Embeddings} \cup {Array2(v, v) : v \in GoodEmb}

\* The metadata dict a caller attaches: candidate_id, chunk_type, the chunk's
\* text, and the tombstone flag 'removed' (absent in a fresh dict, read as
\* FALSE).  The chunks of the model are summary chunks.
Meta(c) == [candidate_id |-> c, removed |-> FALSE,
            chunk_type |-> "summary", text |-> "text"]
Metas == {Meta(c) : c \in Candidates}

\* The empty dict {} that search substitutes for a missing metadata entry.
EmptyMeta == [candidate_id |-> NoneVal, removed |-> FALSE,
              chunk_type |-> NoneVal, text |-> NoneVal]

\* Scopes a caller passes to search as candidate_id: none, the empty string,
\* or a candidate's id.
Scopes == {NoneVal, ""} \cup Candidates

Min(a, b) == IF a < b THEN a ELSE b

(* ---------------------- str(id) and int(key) --------------------------- *)
Digits == <<"0", "1", "2", "3", "4", "5", "6", "7", "8", "9">>

\* Python's str(n) for n >= 0.
RECURSIVE StrOf(_)
StrOf(n) == IF n < 10 THEN Digits[n + 1]
            ELSE StrOf(n \div 10) \o Digits[(n % 10) + 1]

\* Python's int(s) for a key written by StrOf.
IntOf(s) == CHOOSE n \in 0..MaxVectors : StrOf(n) = s

(* ------------------------------ state ---------------------------------- *)
VARIABLES
    vectors,    \* self.index: the rows of the IndexFlatL2, position p at vectors[p+1]
    metadata,   \* self.metadata: str(id) -> metadata dict
    next_id,    \* self.next_id
    idxFile,    \* the file at index_path
    metaFile,   \* the file at metadata_path
    db,         \* the candidates table: candidate id -> row
    reqs,       \* the requests being served: slot -> the request's own state
    hist,       \* what the requests served so far have done
    ret         \* the last call: its name, arguments and outcome

vars == <<vectors, metadata, next_id, idxFile, metaFile, db, reqs, hist, ret>>

\* A file: absent, ok (complete, with its content) or partial (cut short).
Absent == [st |-> "absent", data |-> <<>>]
Partial == [st |-> "partial", data |-> <<>>]
OkFile(d) == [st |-> "ok", data |-> d]

\* The empty candidates table.
NoCandidates == [c \in {} |-> [name |-> "", summary |-> ""]]

\* The empty metadata map.
NoMetadata == [k \in {} |-> EmptyMeta]

\* The ids of a metadata map.
Keys(md) == {IntOf(k) : k \in DOMAIN md}

\* The positions of a vector store.
Positions(vs) == 0..(Len(vs) - 1)

(* --------------------- the faiss IndexFlatL2 --------------------------- *)
\* Squared Euclidean distance of two vectors of equal length.
RECURSIVE SumSq(_, _, _)
SumSq(x, y, i) == IF i = 0 THEN 0
                  ELSE (x[i] - y[i]) * (x[i] - y[i]) + SumSq(x, y, i - 1)

L2sqr(x, y) == SumSq(x, y, Len(x))

\* IndexFlatL2.add(x) on a 2-D array x: faiss asserts that the row length is
\* the index dimension; a 2-D array has rows of one length.
IndexAddOk(rows) == \A i \in 1..Len(rows) : Len(rows[i]) = Dim

\* IndexFlatL2.search putting the higher position first at equal distance.
BeforeHigherFirst(vs, q, p, r) ==
    \/ L2sqr(q, vs[p + 1]) < L2sqr(q, vs[r + 1])
    \/ L2sqr(q, vs[p + 1]) = L2sqr(q, vs[r + 1]) /\ p > r

\* Position p precedes position r in the result of IndexFlatL2.search:
\* smaller distance first, and the lower position first at equal distance.
Before(vs, q, p, r) ==
    \/ L2sqr(q, vs[p + 1]) < L2sqr(q, vs[r + 1])
    \/ L2sqr(q, vs[p + 1]) = L2sqr(q, vs[r + 1]) /\ p < r

\* The kk nearest of the positions in S, nearest first, as (distance,
\* position) pairs.
RECURSIVE Nearest(_, _, _, _)
Nearest(vs, q, S, kk) ==
    IF kk = 0 \/ S = {} THEN <<>>
    ELSE LET p == CHOOSE x \in S : \A r \in S \ {x} : Before(vs, q, x, r)
         IN  <<[dist |-> L2sqr(q, vs[p + 1]), idx |-> p]>>
             \o Nearest(vs, q, S \ {p}, kk - 1)

\* IndexFlatL2.search(q, kk) for 1 <= kk <= ntotal: the (distance, position)
\* pairs of the kk nearest rows, nearest first.
IndexSearch(vs, q, kk) == Nearest(vs, q, Positions(vs), kk)

(* ----------------------- FAISSIndex methods ---------------------------- *)
Max(S) == CHOOSE x \in S : \A y \in S : y <= x

\* An in-memory index.
Instance(vs, md, nid) == [vectors |-> vs, metadata |-> md, next_id |-> nid]

\* The index created when there is nothing to load, or when loading raised.
FreshInstance == Instance(<<>>, NoMetadata, 0)

\* _load_or_create_index resuming at max(key) instead of max(key) + 1.
LoadOrCreateOffByOne(idxF, metaF) ==
    IF idxF.st = "partial" \/ metaF.st = "partial" THEN FreshInstance
    ELSE LET vs == IF idxF.st = "ok" THEN idxF.data ELSE <<>>
             md == IF metaF.st = "ok" THEN metaF.data ELSE NoMetadata
             nid == IF metaF.st = "ok" /\ DOMAIN md # {}
                    THEN Max({IntOf(k) : k \in DOMAIN md})
                    ELSE 0
         IN  Instance(vs, md, nid)

\* _load_or_create_index: what the constructor makes of the two files.
LoadOrCreate(idxF, metaF) ==
    IF idxF.st = "partial" THEN FreshInstance          \* read_index raises
    ELSE IF metaF.st = "partial" THEN FreshInstance    \* json.load raises
    ELSE LET vs == IF idxF.st = "ok" THEN idxF.data ELSE <<>>
             md == IF metaF.st = "ok" THEN metaF.data ELSE NoMetadata
             nid == IF metaF.st = "ok" /\ DOMAIN md # {}
                    THEN Max({IntOf(k) : k \in DOMAIN md}) + 1
                    ELSE 0
         IN  Instance(vs, md, nid)

\* self.metadata[str(vector_id)] = metadata
Put(md, id, m) ==
    [k \in DOMAIN md \cup {StrOf(id)} |-> IF k = StrOf(id) THEN m ELSE md[k]]

\* add_vector storing the metadata before it adds to the faiss index.
AddVectorMetaFirst(vs, md, nid, arr, m) ==
    IF ~IndexAddOk(arr.rows)
    THEN [status |-> "raised", value |-> <<>>,
          inst |-> Instance(vs, Put(md, nid, m), nid + 1)]
    ELSE [status |-> "ok", value |-> <<nid>>,
          inst |-> Instance(vs \o arr.rows, Put(md, nid, m), nid + 1)]

\* add_vector(embedding, metadata): the outcome and the index after it.
AddVectorResult(vs, md, nid, arr, m) ==
    IF ~IndexAddOk(arr.rows)
    THEN [status |-> "raised", value |-> <<>>, inst |-> Instance(vs, md, nid)]
    ELSE [status |-> "ok", value |-> <<nid>>,
          inst |-> Instance(vs \o arr.rows, Put(md, nid, m), nid + 1)]

\* The metadata loop of add_batch: one id per metadata dict.
RECURSIVE PutAll(_, _, _)
PutAll(md, nid, ms) ==
    IF ms = <<>> THEN md
    ELSE PutAll(Put(md, nid, Head(ms)), nid + 1, Tail(ms))

\* np.vstack(embeddings): raises on an empty list and on rows of different
\* lengths.
VstackOk(es) == /\ es # <<>>
                /\ \A i, j \in 1..Len(es) : Len(es[i]) = Len(es[j])

\* The embeddings of a batch before its first one of a wrong length.
RECURSIVE ValidPrefix(_)
ValidPrefix(es) ==
    IF es = <<>> \/ Len(Head(es)) # Dim THEN <<>>
    ELSE <<Head(es)>> \o ValidPrefix(Tail(es))

\* add_batch adding the embeddings one by one, stopping at the first it
\* cannot add.
AddBatchOneByOne(vs, md, nid, es, ms) ==
    IF ~VstackOk(es) \/ ~IndexAddOk(es)
    THEN [status |-> "raised", value |-> <<>>,
          inst |-> Instance(vs \o ValidPrefix(es), md, nid)]
    ELSE [status |-> "ok",
          value |-> [i \in 1..Len(ms) |-> nid + i - 1],
          inst |-> Instance(vs \o es, PutAll(md, nid, ms), nid + Len(ms))]

\* add_batch(embeddings, metadatas): the outcome and the index after it.
AddBatchResult(vs, md, nid, es, ms) ==
    IF ~VstackOk(es) \/ ~IndexAddOk(es)
    THEN [status |-> "raised", value |-> <<>>, inst |-> Instance(vs, md, nid)]
    ELSE [status |-> "ok",
          value |-> [i \in 1..Len(ms) |-> nid + i - 1],
          inst |-> Instance(vs \o es, PutAll(md, nid, ms), nid + Len(ms))]

\* if candidate_id and ...: Python truthiness of the scope argument.
Truthy(c) == c # NoneVal /\ c # ""

\* self.metadata.get(str(idx), {})
MetaOf(md, idx) == IF StrOf(idx) \in DOMAIN md THEN md[StrOf(idx)] ELSE EmptyMeta

\* The scope filter of search: a hit is kept unless a scope is given and the
\* hit's candidate_id differs from it.
Kept(md, c, hit) == ~(Truthy(c) /\ MetaOf(md, hit.idx).candidate_id # c)

\* results[:k]
Take(s, k) == SubSeq(s, 1, Min(k, Len(s)))

\* The result list built by inserting every kept hit at the front.
RECURSIVE FormatReversed(_, _, _)
FormatReversed(md, c, found) ==
    IF found = <<>> THEN <<>>
    ELSE LET h == Head(found)
         IN  FormatReversed(md, c, Tail(found))
             \o (IF Kept(md, c, h)
                 THEN <<[vector_id |-> h.idx, distance |-> h.dist,
                         metadata |-> MetaOf(md, h.idx)]>>
                 ELSE <<>>)

\* results.append({'vector_id': ..., 'distance': ..., 'metadata': ...}) for
\* every hit the scope filter keeps.
RECURSIVE Format(_, _, _)
Format(md, c, found) ==
    IF found = <<>> THEN <<>>
    ELSE LET h == Head(found)
         IN  (IF Kept(md, c, h)
              THEN <<[vector_id |-> h.idx, distance |-> h.dist,
                      metadata |-> MetaOf(md, h.idx)]>>
              ELSE <<>>)
             \o Format(md, c, Tail(found))

\* search(query_vector, k, candidate_id): the list it returns.
SearchResult(vs, md, q, k, c) ==
    IF Len(vs) = 0 THEN <<>>
    ELSE IF Len(q) # Dim THEN <<>>           \* faiss raises; except: return []
    ELSE Take(Format(md, c, IndexSearch(vs, q, Min(k, Len(vs)))), k)

\* delete_candidate(candidate_id): the metadata map after it.
DeleteCandidateResult(md, c) ==
    [k \in DOMAIN md |-> IF md[k].candidate_id = c
                         THEN [md[k] EXCEPT !.removed = TRUE]
                         ELSE md[k]]

\* The chunks get_candidate_chunks collects from the entries of ids S, in the
\* order of self.metadata.items() (the order the ids were stored in).
RECURSIVE ChunksOf(_, _, _)
ChunksOf(md, c, S) ==
    IF S = {} THEN <<>>
    ELSE LET id == CHOOSE x \in S : \A y \in S : x <= y
             m == md[StrOf(id)]
         IN  (IF m.candidate_id = c
              THEN <<[vector_id |-> StrOf(id), chunk_type |-> m.chunk_type,
                      metadata |-> m]>>
              ELSE <<>>)
             \o ChunksOf(md, c, S \ {id})

\* get_candidate_chunks(candidate_id): the list it returns.
GetCandidateChunksResult(md, c) == ChunksOf(md, c, Keys(md))

\* get_stats(): the dict it returns.
GetStatsResult(vs, md) ==
    [total_vectors |-> Len(vs), dimension |-> Dim,
     metadata_entries |-> Cardinality(DOMAIN md),
     index_path |-> "index_path", metadata_path |-> "metadata_path"]

\* Where a save() can stop: before the index file is opened, while it is
\* being written, after it is written, while the metadata file is written;
\* or not at all.
SavePoints == {"before", "in_index", "after_index", "in_metadata", "done"}

\* save(): the two files it leaves when it runs up to the point pt.
SaveResult(vs, md, idxF, metaF, pt) ==
    [idx |-> IF pt = "before" THEN idxF
             ELSE IF pt = "in_index" THEN Partial
             ELSE OkFile(vs),
     meta |-> IF pt \in {"before", "in_index", "after_index"} THEN metaF
              ELSE IF pt = "in_metadata" THEN Partial
              ELSE OkFile(md)]

(* ----------------------- the candidates table -------------------------- *)
\* insert_candidate(data): INSERT OR REPLACE of the row of data's id.
InsertCandidateResult(d, c, row) ==
    [x \in DOMAIN d \cup {c} |-> IF x = c THEN row ELSE d[x]]

\* SQLiteRepository.delete_candidate(candidate_id): DELETE of the row.
DeleteRowResult(d, c) == [x \in DOMAIN d \ {c} |-> d[x]]

\* get_candidate(candidate_id) finds a row (returns a dict, not None).
Resolves(d, c) == c \in DOMAIN d

\* get_candidate(candidate_id) when it finds a row: _row_to_dict of it.
GetCandidate(d, c) ==
    [candidate_id |-> c, name |-> d[c].name, summary |-> d[c].summary]

(* --------------------------- QueryAgent -------------------------------- *)
\* search_k = max(top_k, 15)
SearchFloor == 15

\* What embedding_service.embed(question) does: it raises, or it returns a
\* vector.
EmbedRaised == [status |-> "raised", vector |-> <<>>]
Embedded(v) == [status |-> "ok", vector |-> v]

\* What the chat completion inside _generate_answer does.
GenOutcomes == {"ok", "raised"}

\* A query vector with the coordinates a and b on the first two axes.
Query(a, b) == [i \in 1..Dim |-> IF i = 1 THEN a ELSE IF i = 2 THEN b ELSE 0]

\* The context argument and field: a str (context_parts joined), or the
\* empty list [] of the early and error returns.
Joined(parts) == [type |-> "str", parts |-> parts]
EmptyList == [type |-> "list", parts |-> <<>>]

\* The fixed answers.
NoInfoAnswer == "No relevant information found in the CV database."
GenFailedAnswer == "Unable to generate answer due to an error."
ErrorAnswer(msg) == "Error processing question: " \o msg

\* 1 / (1 + distance), as the fraction it is.
Relevance(dist) == <<1, 1 + dist>>

\* f"{relevance_score:.2f}": the relevance in hundredths, rounded to the
\* nearest (no distance of the model is at a tie).
Relevance2f(dist) == (200 + (1 + dist)) \div (2 * (1 + dist))

\* metadata.get('chunk_type', 'unknown')
ChunkTypeOf(m) == IF m.chunk_type = NoneVal THEN "unknown" ELSE m.chunk_type

\* _reconstruct_chunk_text(candidate, chunk_type, section), for the chunk
\* types of the model: the candidate's summary for a summary chunk, and ""
\* for an unknown type.
ReconstructChunkText(candidate, chunk_type) ==
    IF chunk_type = "summary" THEN candidate.summary ELSE ""

\* _format_context(search_results): the context_parts it collects.
RECURSIVE ContextParts(_, _)
ContextParts(d, results) ==
    IF results = <<>> THEN <<>>
    ELSE LET r == Head(results)
             m == r.metadata
         IN  (IF ~Resolves(d, m.candidate_id) THEN <<>>
              ELSE LET candidate == GetCandidate(d, m.candidate_id)
                       text == IF Truthy(m.text) THEN m.text
                               ELSE ReconstructChunkText(candidate,
                                                         ChunkTypeOf(m))
                   IN  IF Truthy(text)
                       THEN <<[name |-> candidate.name,
                               chunk_type |-> ChunkTypeOf(m),
                               text |-> text,
                               relevance |-> Relevance2f(r.distance)]>>
                       ELSE <<>>)
             \o ContextParts(d, Tail(results))

\* _format_context(search_results)
FormatContext(d, results) == Joined(ContextParts(d, results))

\* _extract_sources listing a result whose candidate is not found under the
\* name 'Unknown'.
RECURSIVE ExtractSourcesUnknown(_, _)
ExtractSourcesUnknown(d, results) ==
    IF results = <<>> THEN <<>>
    ELSE LET r == Head(results)
             m == r.metadata
         IN  <<[candidate_name |-> IF Resolves(d, m.candidate_id)
                                   THEN GetCandidate(d, m.candidate_id).name
                                   ELSE "Unknown",
                candidate_id |-> m.candidate_id,
                chunk_type |-> m.chunk_type,
                relevance |-> Relevance(r.distance)]>>
             \o ExtractSourcesUnknown(d, Tail(results))

\* _extract_sources(search_results)
RECURSIVE ExtractSources(_, _)
ExtractSources(d, results) ==
    IF results = <<>> THEN <<>>
    ELSE LET r == Head(results)
             m == r.metadata
         IN  (IF Resolves(d, m.candidate_id)
              THEN <<[candidate_name |-> GetCandidate(d, m.candidate_id).name,
                      candidate_id |-> m.candidate_id,
                      chunk_type |-> m.chunk_type,
                      relevance |-> Relevance(r.distance)]>>
              ELSE <<>>)
             \o ExtractSources(d, Tail(results))

\* _generate_answer(question, context): the completion's text, or the fixed
\* message when the completion raises.
GenerateAnswer(g, context) ==
    IF g = "raised" THEN GenFailedAnswer ELSE "generated answer"

RECURSIVE SumDistance(_)
SumDistance(results) ==
    IF results = <<>> THEN 0
    ELSE Head(results).distance + SumDistance(Tail(results))

\* _evaluate_confidence with <= at both thresholds.
EvaluateConfidenceInclusive(results) ==
    IF results = <<>> THEN "low"
    ELSE IF SumDistance(results) <= 1 * Len(results) THEN "high"
    ELSE IF SumDistance(results) <= 2 * Len(results) THEN "medium"
    ELSE "low"

\* _evaluate_confidence(search_results): np.mean(distances) < 1.0 is
\* sum < 1 * n, and < 2.0 is sum < 2 * n.
EvaluateConfidence(results) ==
    IF results = <<>> THEN "low"
    ELSE IF SumDistance(results) < 1 * Len(results) THEN "high"
    ELSE IF SumDistance(results) < 2 * Len(results) THEN "medium"
    ELSE "low"

\* The calls answer_question made to its collaborators: the number of
\* embed calls, the candidate_id argument of each search, the number of
\* _generate_answer calls.
Calls(e, s, g) == [embed |-> e, search |-> s, generate |-> g]

\* answer_question without the second, unscoped search.
AnswerQuestionNoFallback(vs, md, d, e, c, top_k, g) ==
    IF e.status = "raised"
    THEN [response |-> [answer |-> ErrorAnswer("embedding failed"),
                        context |-> EmptyList, sources |-> <<>>,
                        confidence |-> "error"],
          calls |-> Calls(1, <<>>, 0), kept |-> <<>>]
    ELSE LET search_k == Max({top_k, SearchFloor})
             scoped == SearchResult(vs, md, e.vector, search_k, c)
             again == FALSE
             search_results == IF again
                               THEN SearchResult(vs, md, e.vector, search_k,
                                                 NoneVal)
                               ELSE scoped
             searches == IF again THEN <<c, NoneVal>> ELSE <<c>>
             kept == Take(search_results, top_k)
         IN  IF search_results = <<>>
             THEN [response |-> [answer |-> NoInfoAnswer,
                                 context |-> EmptyList, sources |-> <<>>,
                                 confidence |-> "low"],
                   calls |-> Calls(1, searches, 0), kept |-> <<>>]
             ELSE [response |->
                      [answer |-> GenerateAnswer(g, FormatContext(d, kept)),
                       context |-> FormatContext(d, kept),
                       sources |-> ExtractSources(d, kept),
                       confidence |-> EvaluateConfidence(kept)],
                   calls |-> Calls(1, searches, 1), kept |-> kept]

\* answer_question calling embed a second time when the first call raised.
AnswerQuestionEmbedRetry(vs, md, d, e, c, top_k, g) ==
    IF e.status = "raised"
    THEN [response |-> [answer |-> ErrorAnswer("embedding failed"),
                        context |-> EmptyList, sources |-> <<>>,
                        confidence |-> "error"],
          calls |-> Calls(2, <<>>, 0), kept |-> <<>>]
    ELSE LET search_k == Max({top_k, SearchFloor})
             scoped == SearchResult(vs, md, e.vector, search_k, c)
             again == scoped = <<>> /\ Truthy(c)
             search_results == IF again
                               THEN SearchResult(vs, md, e.vector, search_k,
                                                 NoneVal)
                               ELSE scoped
             searches == IF again THEN <<c, NoneVal>> ELSE <<c>>
             kept == Take(search_results, top_k)
         IN  IF search_results = <<>>
             THEN [response |-> [answer |-> NoInfoAnswer,
                                 context |-> EmptyList, sources |-> <<>>,
                                 confidence |-> "low"],
                   calls |-> Calls(1, searches, 0), kept |-> <<>>]
             ELSE [response |->
                      [answer |-> GenerateAnswer(g, FormatContext(d, kept)),
                       context |-> FormatContext(d, kept),
                       sources |-> ExtractSources(d, kept),
                       confidence |-> EvaluateConfidence(kept)],
                   calls |-> Calls(1, searches, 1), kept |-> kept]

\* answer_question(question, candidate_id, top_k): the dict it returns, the
\* calls it made and the results it kept (search_results[:top_k]).
AnswerQuestionResult(vs, md, d, e, c, top_k, g) ==
    IF e.status = "raised"
    THEN [response |-> [answer |-> ErrorAnswer("embedding failed"),
                        context |-> EmptyList, sources |-> <<>>,
                        confidence |-> "error"],
          calls |-> Calls(1, <<>>, 0), kept |-> <<>>]
    ELSE LET search_k == Max({top_k, SearchFloor})
             scoped == SearchResult(vs, md, e.vector, search_k, c)
             again == scoped = <<>> /\ Truthy(c)
             search_results == IF again
                               THEN SearchResult(vs, md, e.vector, search_k,
                                                 NoneVal)
                               ELSE scoped
             searches == IF again THEN <<c, NoneVal>> ELSE <<c>>
             kept == Take(search_results, top_k)
         IN  IF search_results = <<>>
             THEN [response |-> [answer |-> NoInfoAnswer,
                                 context |-> EmptyList, sources |-> <<>>,
                                 confidence |-> "low"],
                   calls |-> Calls(1, searches, 0), kept |-> <<>>]
             ELSE [response |->
                      [answer |-> GenerateAnswer(g, FormatContext(d, kept)),
                       context |-> FormatContext(d, kept),
                       sources |-> ExtractSources(d, kept),
                       confidence |-> EvaluateConfidence(kept)],
                   calls |-> Calls(1, searches, 1), kept |-> kept]

(* ------------------------------ routes --------------------------------- *)
\* The requests served at the same time, each by its own thread or process.
Slots == {1, 2}

\* top_k = data.get('top_k', 10)
DefaultTopK == 10

\* What a request knows of the requests that returned before it began: the
\* candidates whose upload returned 201 and those whose delete returned 200.
NoStart == [uploaded |-> {}, deleted |-> {}]

\* A request's own state: the route, the point it has reached, its argument
\* (the candidate uploaded, or the candidate_id of the request JSON), the two
\* files as its FAISSIndex constructor read them, and its FAISSIndex.
Request(kind, pc, arg, start) ==
    [kind |-> kind, pc |-> pc, arg |-> arg, start |-> start,
     seenIdx |-> Absent, seenMeta |-> Absent, inst |-> FreshInstance]

\* A slot that serves no request.
Idle == Request("idle", "idle", NoneVal, NoStart)

\* Nothing served yet: no upload and no delete has returned, no candidate id
\* was generated, and the pair of files on disk is the absent one.
NoHistory == [uploaded |-> {}, deleted |-> {}, used |-> {},
              pairs |-> {<<Absent, Absent>>}]

\* parsed_data of the CV uploaded for candidate c: a name and a summary.
ParsedData(c) == [name |-> IF c = "A" THEN "Ann" ELSE "Bob",
                  summary |-> "summary"]

\* The embedding of the one chunk (the summary) of candidate c's CV.
ChunkEmbedding(c) == IF c = "A" THEN Vec(0) ELSE Vec(1)

\* What embed does for the chunk of an uploaded CV: it raises, or it returns
\* the chunk's embedding.
ChunkOutcomes == {EmbedRaised} \cup {Embedded(ChunkEmbedding(c)) : c \in Candidates}

\* The point a request goes on to when its FAISSIndex is constructed.
AfterLoad(kind) == IF kind = "upload" THEN "embed"
                   ELSE IF kind = "query" THEN "answer"
                   ELSE "search"

\* The points of a request at which its FAISSIndex is constructed.
LoadedPcs == {"embed", "answer", "search", "save",
              "in_index", "after_index", "in_metadata"}

\* The point save() reaches with its next write, from the point it is at.
NextSavePoint(pc) == IF pc = "save" THEN "in_index"
                     ELSE IF pc = "in_index" THEN "after_index"
                     ELSE IF pc = "after_index" THEN "in_metadata"
                     ELSE "done"

\* The points of a request that is inside save().
InSave == {"in_index", "after_index", "in_metadata"}

\* The keyword arguments semantic_search passes to FAISSIndex.search, and the
\* parameters search declares.
SearchKeywords == {"top_k", "candidate_id"}
SearchParams == {"query_vector", "k", "candidate_id"}

\* enriched_results of semantic_search: a hit with its candidate's name, or
\* 'Unknown'.
RECURSIVE EnrichResults(_, _)
EnrichResults(d, results) ==
    IF results = <<>> THEN <<>>
    ELSE LET r == Head(results)
             m == r.metadata
         IN  <<[candidate_name |-> IF Resolves(d, m.candidate_id)
                                   THEN GetCandidate(d, m.candidate_id).name
                                   ELSE "Unknown",
                candidate_id |-> m.candidate_id,
                chunk_type |-> m.chunk_type,
                distance |-> r.distance]>>
             \o EnrichResults(d, Tail(results))

\* semantic_search once its FAISSIndex is constructed: embed, search, enrich.
\* A keyword that search does not declare makes the call raise TypeError,
\* which the route's except clause turns into the 500 response.
SemanticSearchResult(inst, d, e, top_k, c) ==
    IF e.status = "raised"
    THEN [status |-> 500, error |-> "Search failed", results |-> <<>>]
    ELSE IF ~(SearchKeywords \subseteq SearchParams)
    THEN [status |-> 500, error |-> "Search failed", results |-> <<>>]
    ELSE [status |-> 200, error |-> NoneVal,
          results |-> EnrichResults(d, SearchResult(inst.vectors, inst.metadata,
                                                    e.vector, top_k, c))]

\* The persisted index holds the chunk of candidate c: a new FAISSIndex on
\* the two files has the chunk's embedding with c's metadata at its id.
PersistedHolds(idxF, metaF, c) ==
    LET inst == LoadOrCreate(idxF, metaF)
    IN  \E p \in Positions(inst.vectors) :
           /\ inst.vectors[p + 1] = ChunkEmbedding(c)
           /\ MetaOf(inst.metadata, p).candidate_id = c

(* ------------------------------ actions -------------------------------- *)
Init ==
    /\ vectors = <<>>
    /\ metadata = NoMetadata
    /\ next_id = 0
    /\ idxFile = Absent
    /\ metaFile = Absent
    /\ db = NoCandidates
    /\ reqs = [s \in Slots |-> Idle]
    /\ hist = NoHistory
    /\ ret = [op |-> "load", status |-> "ok", arg |-> <<>>, value |-> <<>>]

SetInstance(inst) ==
    /\ vectors' = inst.vectors
    /\ metadata' = inst.metadata
    /\ next_id' = inst.next_id

\* A new FAISSIndex is constructed on the same path.  The constructor never
\* raises: the except clause of _load_or_create_index swallows every error.
Load ==
    /\ SetInstance(LoadOrCreate(idxFile, metaFile))
    /\ ret' = [op |-> "load", status |-> "ok", arg |-> <<>>, value |-> <<>>]
    /\ UNCHANGED <<idxFile, metaFile, db, reqs, hist>>

AddVector(arr, m) ==
    LET r == AddVectorResult(vectors, metadata, next_id, arr, m) IN
    /\ Len(vectors) + Len(arr.rows) <= MaxVectors
    /\ next_id < MaxVectors
    /\ SetInstance(r.inst)
    /\ ret' = [op |-> "add_vector", status |-> r.status,
               arg |-> [embedding |-> arr, metadata |-> m], value |-> r.value]
    /\ UNCHANGED <<idxFile, metaFile, db, reqs, hist>>

AddBatch(es, ms) ==
    LET r == AddBatchResult(vectors, metadata, next_id, es, ms) IN
    /\ (VstackOk(es) /\ IndexAddOk(es)) =>
          Len(vectors) + Len(es) <= MaxVectors /\ next_id + Len(ms) <= MaxVectors
    /\ SetInstance(r.inst)
    /\ ret' = [op |-> "add_batch", status |-> r.status, arg |-> es,
               value |-> r.value]
    /\ UNCHANGED <<idxFile, metaFile, db, reqs, hist>>

Search(q, k, c) ==
    /\ ret' = [op |-> "search", status |-> "ok",
               arg |-> [q |-> q, k |-> k, c |-> c],
               value |-> SearchResult(vectors, metadata, q, k, c)]
    /\ UNCHANGED <<vectors, metadata, next_id, idxFile, metaFile, db, reqs, hist>>

DeleteCandidate(c) ==
    /\ metadata' = DeleteCandidateResult(metadata, c)
    /\ ret' = [op |-> "delete_candidate", status |-> "ok", arg |-> c,
               value |-> <<>>]
    /\ UNCHANGED <<vectors, next_id, idxFile, metaFile, db, reqs, hist>>

GetCandidateChunks(c) ==
    /\ ret' = [op |-> "get_candidate_chunks", status |-> "ok", arg |-> c,
               value |-> GetCandidateChunksResult(metadata, c)]
    /\ UNCHANGED <<vectors, metadata, next_id, idxFile, metaFile, db, reqs, hist>>

GetStats ==
    /\ ret' = [op |-> "get_stats", status |-> "ok", arg |-> <<>>,
               value |-> GetStatsResult(vectors, metadata)]
    /\ UNCHANGED <<vectors, metadata, next_id, idxFile, metaFile, db, reqs, hist>>

\* SQLiteRepository.insert_candidate
InsertCandidate(c, row) ==
    /\ db' = InsertCandidateResult(db, c, row)
    /\ ret' = [op |-> "insert_candidate", status |-> "ok", arg |-> c,
               value |-> <<>>]
    /\ UNCHANGED <<vectors, metadata, next_id, idxFile, metaFile, reqs, hist>>

\* SQLiteRepository.delete_candidate
DeleteRow(c) ==
    /\ db' = DeleteRowResult(db, c)
    /\ ret' = [op |-> "delete_row", status |-> "ok", arg |-> c,
               value |-> <<>>]
    /\ UNCHANGED <<vectors, metadata, next_id, idxFile, metaFile, reqs, hist>>

\* QueryAgent.answer_question, with what its two remote collaborators do:
\* e is the outcome of embed(question), g that of the chat completion.
AnswerQuestion(e, c, top_k, g) ==
    \E r \in {AnswerQuestionResult(vectors, metadata, db, e, c, top_k, g)} :
    /\ ret' = [op |-> "answer_question", status |-> "ok",
               arg |-> [embed |-> e, candidate_id |-> c, top_k |-> top_k,
                        generate |-> IF r.calls.generate = 0 THEN NoneVal
                                     ELSE g],
               value |-> r.response, calls |-> r.calls, kept |-> r.kept]
    /\ UNCHANGED <<vectors, metadata, next_id, idxFile, metaFile, db, reqs, hist>>

Save(pt) ==
    LET d == SaveResult(vectors, metadata, idxFile, metaFile, pt) IN
    /\ idxFile' = d.idx
    /\ metaFile' = d.meta
    /\ ret' = [op |-> "save", status |-> IF pt = "done" THEN "ok" ELSE "raised",
               arg |-> pt, value |-> <<>>]
    /\ UNCHANGED <<vectors, metadata, next_id, db, reqs, hist>>

\* The lists given to add_batch as embeddings: n copies of a valid embedding.
GoodBatches == {[i \in 1..n |-> e] : n \in 1..MaxBatch, e \in GoodEmb}

\* Lists add_batch refuses: the empty list, and valid embeddings with one
\* element replaced by an embedding of another length.
BadBatches ==
    {<<>>} \cup UNION {{[i \in 1..n |-> IF i = b THEN x ELSE Vec(0)] :
                          b \in 1..n, x \in BadEmb} : n \in 1..MaxBatch}

\* The lists given to add_batch as metadatas: the chunks of one candidate.
BatchMetas == {[i \in 1..n |-> Meta(c)] : n \in 0..MaxBatch, c \in Candidates}

\* The arrays and batches stored by the runs that follow the files: the
\* files keep the rows as they are given, whatever their coordinates.
StoredArrays ==
    {Array1(Vec(0)), Array2(Vec(1), Vec(1))} \cup {Array1(v) : v \in BadEmb}
StoredBatches == {[i \in 1..n |-> Vec(0)] : n \in 1..MaxBatch}

\* The index and its files: the methods that change either.
Next ==
    \/ Load
    \/ \E arr \in StoredArrays, m \in Metas : AddVector(arr, m)
    \/ \E es \in StoredBatches, ms \in BatchMetas : AddBatch(es, ms)
    \/ \E c \in Candidates : DeleteCandidate(c)
    \/ \E pt \in SavePoints : Save(pt)

Spec == Init /\ [][Next]_vars

\* The methods of one in-memory index, with every input; the files play no
\* part in them.
IndexNext ==
    \/ \E arr \in Arrays, m \in Metas : AddVector(arr, m)
    \/ \E es \in GoodBatches \cup BadBatches, ms \in BatchMetas : AddBatch(es, ms)
    \/ \E c \in Candidates : DeleteCandidate(c)
    \/ \E q \in Embeddings, k \in 1..MaxK, c \in Scopes : Search(q, k, c)
    \/ \E c \in Candidates : GetCandidateChunks(c)
    \/ GetStats

IndexSpec == Init /\ [][IndexNext]_vars

\* The chunks the agent retrieves, as (embedding, metadata): one with its
\* text, and one without it (an index written before the text was stored).
AgentChunks ==
    {<<Vec(0), Meta("A")>>, <<Vec(1), [Meta("B") EXCEPT !.text = NoneVal]>>}

\* The values of top_k asked for.
TopKs == {0, 1, 2}

\* The vectors embed returns for the questions asked.
QueryVectors == {Query(0, 0), Query(1, 1), Query(2, 1)}

EmbedOutcomes ==
    {EmbedRaised} \cup {Embedded(v) : v \in QueryVectors \cup BadEmb}

\* The rows inserted for the candidates: a name, and a summary that may be
\* empty.
StoredRows == {<<"A", [name |-> "Ann", summary |-> "summary"]>>,
               <<"B", [name |-> "Bob", summary |-> "summary"]>>,
               <<"B", [name |-> "Bob", summary |-> ""]>>}

\* The question-answering agent over one in-memory index and the candidates
\* table.
AgentNext ==
    \/ \E x \in AgentChunks : AddVector(Array1(x[1]), x[2])
    \/ \E x \in StoredRows : InsertCandidate(x[1], x[2])
    \/ \E c \in Candidates : DeleteRow(c)
    \/ \E e \in EmbedOutcomes, c \in Scopes, top_k \in TopKs, g \in GenOutcomes :
          AnswerQuestion(e, c, top_k, g)

AgentSpec == Init /\ [][AgentNext]_vars

(* ------------------- an index larger than the floor -------------------- *)
\* One row more than the floor of search_k: the smallest index in which a
\* search for max(top_k, 15) rows leaves a row out.
BulkRows == SearchFloor + 1

\* The chunk stored as row n of that index, as (embedding, metadata): the
\* one chunk of candidate B first, then chunks of candidate A, all with
\* their text.
BulkChunk(n) == IF n = 0 THEN <<Vec(1), Meta("B")>> ELSE <<Vec(0), Meta("A")>>

\* add_vector on the index that grows up to BulkRows rows.
AddChunk(arr, m) ==
    LET r == AddVectorResult(vectors, metadata, next_id, arr, m) IN
    /\ Len(vectors) < BulkRows
    /\ SetInstance(r.inst)
    /\ ret' = [op |-> "add_vector", status |-> r.status,
               arg |-> [embedding |-> arr, metadata |-> m], value |-> r.value]
    /\ UNCHANGED <<idxFile, metaFile, db, reqs, hist>>

\* The rows inserted for the candidates of that index.
BulkStoredRows == {<<"A", [name |-> "Ann", summary |-> "summary"]>>,
                   <<"B", [name |-> "Bob", summary |-> "summary"]>>}

\* The values of top_k asked of that index: below the floor and above it.
BulkTopKs == {1, BulkRows}

\* Questions scoped to a candidate, asked of an index that grows past the
\* floor of search_k.
BulkNext ==
    \/ AddChunk(Array1(BulkChunk(Len(vectors))[1]), BulkChunk(Len(vectors))[2])
    \/ \E x \in BulkStoredRows : InsertCandidate(x[1], x[2])
    \/ \E c \in Candidates, top_k \in BulkTopKs :
          AnswerQuestion(Embedded(Query(0, 0)), c, top_k, "ok")

BulkSpec == Init /\ [][BulkNext]_vars

(* ----------------------- the routes, concurrently ---------------------- *)
\* upload_cv up to insert_candidate: a new candidate id (uuid4), the parsed
\* CV stored in the candidates table.
UploadCv(s, c) ==
    /\ reqs[s].kind = "idle"
    /\ c \notin hist.used
    /\ db' = InsertCandidateResult(db, c, ParsedData(c))
    /\ hist' = [hist EXCEPT !.used = @ \cup {c}]
    /\ reqs' = [reqs EXCEPT ![s] = Request("upload", "load_idx", c, NoStart)]
    /\ UNCHANGED <<vectors, metadata, next_id, idxFile, metaFile, ret>>

\* query_candidates begins, scoped to candidate_id c or to none.
QueryCandidates(s, c) ==
    /\ reqs[s].kind = "idle"
    /\ reqs' = [reqs EXCEPT ![s] =
                  Request("query", "load_idx", c,
                          [uploaded |-> hist.uploaded, deleted |-> hist.deleted])]
    /\ UNCHANGED <<vectors, metadata, next_id, idxFile, metaFile, db, hist, ret>>

\* semantic_search begins.
SemanticSearch(s, c) ==
    /\ reqs[s].kind = "idle"
    /\ reqs' = [reqs EXCEPT ![s] =
                  Request("search", "load_idx", c,
                          [uploaded |-> hist.uploaded, deleted |-> hist.deleted])]
    /\ UNCHANGED <<vectors, metadata, next_id, idxFile, metaFile, db, hist, ret>>

\* FAISSIndex(path), first half: _load_or_create_index reads the index file.
\* A file it cannot read makes it fall back to the fresh index at once.
LoadIndexFile(s) ==
    LET r == reqs[s] IN
    /\ r.pc = "load_idx"
    /\ reqs' = [reqs EXCEPT ![s] =
                  IF idxFile.st = "partial"
                  THEN [r EXCEPT !.seenIdx = idxFile,
                                 !.inst = LoadOrCreate(idxFile, metaFile),
                                 !.pc = AfterLoad(r.kind)]
                  ELSE [r EXCEPT !.seenIdx = idxFile, !.pc = "load_meta"]]
    /\ UNCHANGED <<vectors, metadata, next_id, idxFile, metaFile, db, hist, ret>>

\* FAISSIndex(path), second half: _load_or_create_index reads the metadata
\* file.
LoadMetadataFile(s) ==
    LET r == reqs[s] IN
    /\ r.pc = "load_meta"
    /\ reqs' = [reqs EXCEPT ![s] =
                  [r EXCEPT !.seenMeta = metaFile,
                            !.inst = LoadOrCreate(r.seenIdx, metaFile),
                            !.pc = AfterLoad(r.kind)]]
    /\ UNCHANGED <<vectors, metadata, next_id, idxFile, metaFile, db, hist, ret>>

\* upload_cv, the loop over the chunks: embed the chunk and add_vector it to
\* the request's index; when embed raises, the route returns 500.
EmbedChunk(s, e) ==
    LET r == reqs[s] IN
    /\ r.pc = "embed"
    /\ e.status = "ok" => e.vector = ChunkEmbedding(r.arg)
    /\ IF e.status = "raised"
       THEN /\ reqs' = [reqs EXCEPT ![s] = Idle]
            /\ ret' = [op |-> "upload", status |-> 500, arg |-> r.arg]
       ELSE /\ reqs' = [reqs EXCEPT ![s] =
                          [r EXCEPT !.inst =
                               AddVectorResult(r.inst.vectors, r.inst.metadata,
                                               r.inst.next_id, Array1(e.vector),
                                               Meta(r.arg)).inst,
                                    !.pc = "save"]]
            /\ UNCHANGED ret
    /\ UNCHANGED <<vectors, metadata, next_id, idxFile, metaFile, db, hist>>

\* upload_cv, faiss_index.save() raising before it writes: the route returns
\* 500.
SaveRaises(s) ==
    /\ reqs[s].pc = "save"
    /\ reqs' = [reqs EXCEPT ![s] = Idle]
    /\ ret' = [op |-> "upload", status |-> 500, arg |-> reqs[s].arg]
    /\ UNCHANGED <<vectors, metadata, next_id, idxFile, metaFile, db, hist>>

\* upload_cv, one write of faiss_index.save(): the index file is opened (and
\* so cut), the index file is written, the metadata file is opened, the
\* metadata file is written.  After the last write the route returns 201.
SaveStep(s) ==
    LET r == reqs[s]
        pt == NextSavePoint(r.pc)
        d == SaveResult(r.inst.vectors, r.inst.metadata, idxFile, metaFile, pt)
    IN  /\ r.pc \in {"save"} \cup InSave
        /\ idxFile' = IF pt \in {"in_index", "after_index"} THEN d.idx
                      ELSE idxFile
        /\ metaFile' = IF pt \in {"in_metadata", "done"} THEN d.meta
                       ELSE metaFile
        /\ IF pt = "done"
           THEN /\ reqs' = [reqs EXCEPT ![s] = Idle]
                /\ hist' = [hist EXCEPT
                              !.uploaded = @ \cup {r.arg},
                              !.pairs = @ \cup {<<OkFile(r.inst.vectors),
                                                  OkFile(r.inst.metadata)>>}]
                /\ ret' = [op |-> "upload", status |-> 201, arg |-> r.arg]
           ELSE /\ reqs' = [reqs EXCEPT ![s] = [@ EXCEPT !.pc = pt]]
                /\ UNCHANGED <<hist, ret>>
        /\ UNCHANGED <<vectors, metadata, next_id, db>>

\* query_candidates once its FAISSIndex is constructed: answer_question on
\* it with the default top_k, and the 200 response.
Answer(s) ==
    LET r == reqs[s] IN
    \E a \in {AnswerQuestionResult(r.inst.vectors, r.inst.metadata, db,
                                   Embedded(Query(0, 0)), r.arg, DefaultTopK,
                                   "ok")} :
    /\ r.pc = "answer"
    /\ reqs' = [reqs EXCEPT ![s] = Idle]
    /\ ret' = [op |-> "query", status |-> 200, arg |-> r.arg,
               value |-> a.response, kept |-> a.kept, start |-> r.start,
               inst |-> r.inst]
    /\ UNCHANGED <<vectors, metadata, next_id, idxFile, metaFile, db, hist>>

\* semantic_search once its FAISSIndex is constructed, and its response.
RespondSearch(s) ==
    LET r == reqs[s] IN
    \E a \in {SemanticSearchResult(r.inst, db, Embedded(Query(0, 0)),
                                   DefaultTopK, r.arg)} :
    /\ r.pc = "search"
    /\ reqs' = [reqs EXCEPT ![s] = Idle]
    /\ ret' = [op |-> "semantic_search", status |-> a.status, arg |-> r.arg,
               value |-> a.results, inst |-> r.inst]
    /\ UNCHANGED <<vectors, metadata, next_id, idxFile, metaFile, db, hist>>

\* The delete route: 404 when the candidate has no row, else the row is
\* deleted and the response is 200.
DeleteRoute(c) ==
    /\ IF Resolves(db, c)
       THEN /\ db' = DeleteRowResult(db, c)
            /\ hist' = [hist EXCEPT !.deleted = @ \cup {c}]
            /\ ret' = [op |-> "delete", status |-> 200, arg |-> c]
       ELSE /\ ret' = [op |-> "delete", status |-> 404, arg |-> c]
            /\ UNCHANGED <<db, hist>>
    /\ UNCHANGED <<vectors, metadata, next_id, idxFile, metaFile, reqs>>

\* The service under concurrent requests: uploads and queries that overlap,
\* each on its own FAISSIndex over the same two files.
ServiceNext ==
    \/ \E s \in Slots, c \in Candidates : UploadCv(s, c)
    \/ \E s \in Slots : QueryCandidates(s, NoneVal)
    \/ \E s \in Slots : LoadIndexFile(s)
    \/ \E s \in Slots : LoadMetadataFile(s)
    \/ \E s \in Slots, e \in ChunkOutcomes : EmbedChunk(s, e)
    \/ \E s \in Slots : SaveRaises(s)
    \/ \E s \in Slots : SaveStep(s)
    \/ \E s \in Slots : Answer(s)

ServiceSpec == Init /\ [][ServiceNext]_vars

\* The slot that serves the requests when they come one at a time.
Serial == CHOOSE s \in Slots : \A t \in Slots : s <= t

\* The service under requests that do not overlap: the four routes, one
\* request at a time.
SerialNext ==
    \/ \E c \in Candidates : UploadCv(Serial, c)
    \/ \E c \in {NoneVal} \cup Candidates : QueryCandidates(Serial, c)
    \/ \E c \in {NoneVal} \cup Candidates : SemanticSearch(Serial, c)
    \/ LoadIndexFile(Serial)
    \/ LoadMetadataFile(Serial)
    \/ \E e \in ChunkOutcomes : EmbedChunk(Serial, e)
    \/ SaveRaises(Serial)
    \/ SaveStep(Serial)
    \/ Answer(Serial)
    \/ RespondSearch(Serial)
    \/ \E c \in Candidates : DeleteRoute(c)

SerialSpec == Init /\ [][SerialNext]_vars

(* ------------------------------ claims --------------------------------- *)
IsSearch == ret.op = "search"
IsAdd == ret.op \in {"add_vector", "add_batch"}

\* C1: once delete_candidate has tombstoned a candidate's records (removed is
\* TRUE on exactly the records it was applied to), no search returns one of
\* them.
C1_SearchExcludesTombstoned ==
    IsSearch => \A i \in 1..Len(ret.value) : ~ret.value[i].metadata.removed

\* The stored records a search scoped to candidate c may return: those of c
\* that are not tombstoned.
Matching(vs, md, c) ==
    {p \in Positions(vs) :
        MetaOf(md, p).candidate_id = c /\ ~MetaOf(md, p).removed}

\* C2: a search for a query of the index dimension, scoped to a candidate
\* with m non-tombstoned records, returns exactly min(k, m) results.
C2_ScopedSearchCount ==
    (IsSearch /\ ret.arg.q \in GoodEmb /\ ret.arg.c \in Candidates)
        => Len(ret.value)
             = Min(ret.arg.k, Cardinality(Matching(vectors, metadata, ret.arg.c)))

\* C3: the ids of the vector store (positions 0..ntotal-1) are the ids that
\* are keys of the metadata map, in every state.
C3_SameIds == Positions(vectors) = Keys(metadata)

\* C4: an add_batch with an element of a length other than the index
\* dimension raises and leaves vectors, metadata and next_id as they were.
C4_AddBatchAllOrNothing ==
    [][(ret'.op = "add_batch"
         /\ \E i \in 1..Len(ret'.arg) : Len(ret'.arg[i]) # Dim)
        => (ret'.status = "raised"
             /\ UNCHANGED <<vectors, metadata, next_id>>)]_vars

\* C4 witness: a batch mixing valid embeddings with one of a wrong length was
\* refused by an index that holds vectors.
C4_Witness ==
    /\ ret.op = "add_batch" /\ ret.status = "raised"
    /\ \E i, j \in 1..Len(ret.arg) : Len(ret.arg[i]) # Dim /\ Len(ret.arg[j]) = Dim
    /\ Len(vectors) > 0

\* C5: a save() that is interrupted leaves on disk either the pair of files
\* it found or the complete new pair (the index and the metadata in memory).
C5_SaveAtomic ==
    [][(ret'.op = "save" /\ ret'.status = "raised")
        => \/ <<idxFile', metaFile'>> = <<idxFile, metaFile>>
           \/ <<idxFile', metaFile'>> = <<OkFile(vectors), OkFile(metadata)>>]_vars

\* C6: constructing an index on a corrupt index file or metadata file raises.
C6_CorruptLoadRaises ==
    (ret.op = "load" /\ (idxFile.st = "partial" \/ metaFile.st = "partial"))
        => ret.status = "raised"

\* C7: after a complete save(), a new FAISSIndex on the same path holds the
\* same vectors, the same metadata (removed flags included) and the same
\* next id as the index that was saved.
C7_RoundTrip ==
    (ret.op = "save" /\ ret.status = "ok")
        => LoadOrCreate(idxFile, metaFile) = Instance(vectors, metadata, next_id)

\* C7 witness: a saved index of two or more vectors, one record tombstoned
\* and one not.
C7_Witness ==
    /\ ret.op = "save" /\ ret.status = "ok"
    /\ Len(vectors) >= 2
    /\ \E k1, k2 \in DOMAIN metadata : metadata[k1].removed /\ ~metadata[k2].removed

\* C8: add_vector and add_batch never return an id that the metadata file on
\* disk already holds.
C8_IdsNeverReused ==
    (IsAdd /\ ret.status = "ok" /\ metaFile.st = "ok")
        => \A i \in 1..Len(ret.value) : StrOf(ret.value[i]) \notin DOMAIN metaFile.data

\* C9: add_vector with a 1-D embedding of a wrong length raises and leaves
\* vectors, metadata and next_id as they were; with one of the index
\* dimension it returns next_id, appends the embedding as the one new row,
\* stores the metadata under that id alone and advances next_id by one.
C9_AddVector ==
    [][(ret'.op = "add_vector" /\ ret'.arg.embedding.ndim = 1)
        => LET e == ret'.arg.embedding.rows[1] IN
           IF Len(e) # Dim
           THEN /\ ret'.status = "raised"
                /\ UNCHANGED <<vectors, metadata, next_id>>
           ELSE /\ ret'.status = "ok"
                /\ ret'.value = <<next_id>>
                /\ next_id' = next_id + 1
                /\ vectors' = Append(vectors, e)
                /\ StrOf(next_id) \notin DOMAIN metadata
                /\ DOMAIN metadata' = DOMAIN metadata \cup {StrOf(next_id)}
                /\ metadata'[StrOf(next_id)] = ret'.arg.metadata
                /\ \A k \in DOMAIN metadata : metadata'[k] = metadata[k]]_vars

\* C9 witness: an index that holds records refused an embedding of a wrong
\* length.
C9_Witness ==
    /\ ret.op = "add_vector" /\ ret.status = "raised"
    /\ ret.arg.embedding.ndim = 1
    /\ Len(vectors) > 0 /\ next_id > 0

\* C10: the hits of a search carry their squared Euclidean distance to the
\* query and come in ascending distance, hits at equal distance in ascending
\* id.
C10_SearchOrder ==
    IsSearch =>
        /\ \A i \in 1..Len(ret.value) :
              ret.value[i].distance
                = L2sqr(ret.arg.q, vectors[ret.value[i].vector_id + 1])
        /\ \A i, j \in 1..Len(ret.value) :
              i < j =>
                \/ ret.value[i].distance < ret.value[j].distance
                \/ /\ ret.value[i].distance = ret.value[j].distance
                   /\ ret.value[i].vector_id < ret.value[j].vector_id

\* C10 witness: a search returned two hits at the same distance.
C10_Witness ==
    /\ IsSearch /\ Len(ret.value) >= 2
    /\ ret.value[1].distance = ret.value[2].distance

\* The ids of the hits of a search.
HitIds(hits) == {hits[i].vector_id : i \in 1..Len(hits)}

\* C11: a search given a scope (any value a caller passes as candidate_id)
\* returns only records whose candidate_id is that scope; and when nothing is
\* tombstoned and k is at least the number of stored vectors (three records
\* of A, two of B, k = 5) it returns every record of that candidate.
C11_ScopedSearchOnlyScope ==
    (IsSearch /\ ret.arg.c # NoneVal) =>
        /\ \A i \in 1..Len(ret.value) :
              ret.value[i].metadata.candidate_id = ret.arg.c
        /\ (/\ ret.arg.q \in GoodEmb
            /\ ret.arg.k >= Len(vectors)
            /\ \A p \in Positions(vectors) : ~MetaOf(metadata, p).removed)
           => HitIds(ret.value)
                = {p \in Positions(vectors) :
                      MetaOf(metadata, p).candidate_id = ret.arg.c}

SameEmbedding(vs, q) == {p \in Positions(vs) : vs[p + 1] = q}

C13_Tombstone ==
    [][ret'.op = "delete_candidate" =>
        LET c == ret'.arg
            s == GetStatsResult(vectors, metadata)
            t == GetStatsResult(vectors', metadata')
            newly == {k \in DOMAIN metadata :
                         metadata[k].candidate_id = c /\ ~metadata[k].removed}
        IN  /\ UNCHANGED <<vectors, next_id, idxFile, metaFile>>
            /\ DOMAIN metadata' = DOMAIN metadata
            /\ \A k \in DOMAIN metadata :
                  metadata'[k] = IF metadata[k].candidate_id = c
                                 THEN [metadata[k] EXCEPT !.removed = TRUE]
                                 ELSE metadata[k]
            /\ DeleteCandidateResult(metadata', c) = metadata'
            /\ t.total_vectors = s.total_vectors
            /\ "tombstoned_count" \in DOMAIN s
            /\ "tombstoned_count" \in DOMAIN t
            /\ t.tombstoned_count = s.tombstoned_count + Cardinality(newly)]_vars

\* C14: get_candidate_chunks(c) returns exactly the records of candidate c
\* that are not tombstoned.
C14_CandidateChunks ==
    ret.op = "get_candidate_chunks" =>
        {ret.value[i].vector_id : i \in 1..Len(ret.value)}
          = {k \in DOMAIN metadata :
                metadata[k].candidate_id = ret.arg /\ ~metadata[k].removed}

IsAnswer == ret.op = "answer_question"

\* The fields of the dict answer_question returns.
ResponseFields == {"answer", "context", "sources", "confidence"}

\* C15: when the search scoped to the given candidate_id finds nothing,
\* answer_question uses the results of an unscoped search (a second search,
\* without candidate_id, when the scope is not empty); and when that finds
\* nothing either, as on an empty index, it returns the "no relevant
\* information" answer with an empty context, no sources and confidence low,
\* and does not call _generate_answer.
C15_FallbackThenNoInfo ==
    (IsAnswer /\ ret.arg.embed.status = "ok" /\ ret.arg.candidate_id # NoneVal) =>
        LET q == ret.arg.embed.vector
            c == ret.arg.candidate_id
            k == IF ret.arg.top_k > 15 THEN ret.arg.top_k ELSE 15
            unscoped == SearchResult(vectors, metadata, q, k, NoneVal)
        IN  SearchResult(vectors, metadata, q, k, c) = <<>> =>
              /\ c # "" => ret.calls.search = <<c, NoneVal>>
              /\ ret.kept = Take(unscoped, ret.arg.top_k)
              /\ unscoped = <<>> =>
                    /\ ret.status = "ok"
                    /\ ret.value.answer
                         = "No relevant information found in the CV database."
                    /\ ret.value.context = EmptyList
                    /\ ret.value.sources = <<>>
                    /\ ret.value.confidence = "low"
                    /\ ret.calls.generate = 0

\* C15 witness: the scoped search found nothing in an index that holds
\* records, and the unscoped search that followed found some.
C15_Witness ==
    /\ IsAnswer /\ ret.arg.candidate_id \in Candidates
    /\ ret.calls.search = <<ret.arg.candidate_id, NoneVal>>
    /\ ret.kept # <<>>

\* C16: when the completion inside _generate_answer raises, answer_question
\* returns the fixed failure message with an empty context, no sources and
\* confidence error.
C16_GenerationFailureDegraded ==
    (IsAnswer /\ ret.calls.generate = 1 /\ ret.arg.generate = "raised") =>
        /\ ret.value.answer = GenFailedAnswer
        /\ ret.value.context.parts = <<>>
        /\ ret.value.sources = <<>>
        /\ ret.value.confidence = "error"

\* C17 as stated: when embed raises, answer_question raises to its caller,
\* after exactly one embed call and no search or generation.
C17_EmbeddingFailurePropagates ==
    (IsAnswer /\ ret.arg.embed.status = "raised") =>
        /\ ret.status = "raised"
        /\ ret.calls = Calls(1, <<>>, 0)

\* C17 as amended: when embed raises, answer_question does not raise: it
\* returns the error dict (an "Error processing question" answer, the empty
\* list as context, no sources, confidence error), after exactly one embed
\* call and no search or generation.
C17_EmbeddingFailureReturnsError ==
    (IsAnswer /\ ret.arg.embed.status = "raised") =>
        /\ ret.status = "ok"
        /\ DOMAIN ret.value = ResponseFields
        /\ ret.value.answer = ErrorAnswer("embedding failed")
        /\ ret.value.context = EmptyList
        /\ ret.value.sources = <<>>
        /\ ret.value.confidence = "error"
        /\ ret.calls.embed = 1
        /\ ret.calls.search = <<>>
        /\ ret.calls.generate = 0

\* C17 witness: embed raised for a question asked of an index that holds
\* records of the candidate the question is scoped to.
C17_Witness ==
    /\ IsAnswer /\ ret.arg.embed.status = "raised"
    /\ ret.arg.candidate_id \in Candidates
    /\ \E k \in DOMAIN metadata : metadata[k].candidate_id = ret.arg.candidate_id

\* A step of answer_question failed: embed raised, the search found nothing
\* (an empty index, or a search that failed inside the index), nothing was
\* kept, a candidate lookup found no row, or the completion raised.
FailedStep ==
    \/ ret.arg.embed.status = "raised"
    \/ ret.kept = <<>>
    \/ \E i \in 1..Len(ret.kept) : ~Resolves(db, ret.kept[i].metadata.candidate_id)
    \/ ret.arg.generate = "raised"

\* C18: whichever step of answer_question fails, it returns (it does not
\* raise) a dict of the four fields whose confidence is error or low.
C18_FailuresWellFormed ==
    (IsAnswer /\ FailedStep) =>
        /\ ret.status = "ok"
        /\ DOMAIN ret.value = ResponseFields
        /\ ret.value.confidence \in {"error", "low"}

\* C19: the confidence of an answer is decided by the mean distance d of the
\* results kept after truncation to top_k: high when d < 1, medium when
\* 1 <= d < 2, low when d >= 2, and low when nothing is kept.
C19_ConfidenceByMeanDistance ==
    (IsAnswer /\ ret.arg.embed.status = "ok") =>
        LET n == Len(ret.kept)
            total == SumDistance(ret.kept)
        IN  /\ n <= ret.arg.top_k
            /\ n = 0 => ret.value.confidence = "low"
            /\ (n > 0 /\ total < n) => ret.value.confidence = "high"
            /\ (n > 0 /\ n <= total /\ total < 2 * n)
                  => ret.value.confidence = "medium"
            /\ (n > 0 /\ 2 * n <= total) => ret.value.confidence = "low"

\* C19 witness: two results were kept whose mean distance is exactly 1, and
\* the confidence is medium.
C19_Witness ==
    /\ IsAnswer /\ Len(ret.kept) = 2
    /\ SumDistance(ret.kept) = 2
    /\ ret.value.confidence = "medium"

\* The kept results whose candidate the candidates table holds.
ResolvedKept == {i \in 1..Len(ret.kept) :
                    Resolves(db, ret.kept[i].metadata.candidate_id)}

\* C20: a kept result whose candidate_id has no row in the candidates table
\* gives no source and no excerpt, and the answer is not an error: the
\* sources are one per resolved result, the excerpts are of resolved results
\* only, and the confidence is not error.
C20_UnresolvedDropped ==
    (IsAnswer /\ ret.calls.generate = 1) =>
        /\ Len(ret.value.sources) = Cardinality(ResolvedKept)
        /\ \A j \in 1..Len(ret.value.sources) :
              ret.value.sources[j].candidate_id \in DOMAIN db
        /\ Len(ret.value.context.parts) <= Cardinality(ResolvedKept)
        /\ \A j \in 1..Len(ret.value.context.parts) :
              \E i \in ResolvedKept :
                 ret.value.context.parts[j].name
                   = db[ret.kept[i].metadata.candidate_id].name
        /\ ret.status = "ok"
        /\ ret.value.confidence # "error"

\* C20 witness: of two kept results one has a row in the candidates table
\* and the other has none.
C20_Witness ==
    /\ IsAnswer /\ ret.calls.generate = 1
    /\ Len(ret.kept) = 2
    /\ Cardinality(ResolvedKept) = 1

\* C21: the sources of an answer are parallel to its context block: one
\* source per excerpt, in the same order, of the same candidate and chunk
\* type and with the same relevance (the excerpt shows it with two
\* decimals); also when a retrieved chunk has no stored text.
C21_SourcesParallelToContext ==
    (IsAnswer /\ ret.calls.generate = 1) =>
        /\ Len(ret.value.sources) = Len(ret.value.context.parts)
        /\ \A j \in 1..Len(ret.value.sources) :
              j <= Len(ret.value.context.parts) =>
                LET s == ret.value.sources[j]
                    x == ret.value.context.parts[j]
                IN  /\ x.name = s.candidate_name
                    /\ x.chunk_type = s.chunk_type
                    /\ x.relevance
                         = (200 + s.relevance[2]) \div (2 * s.relevance[2])

\* C24: a search that fails inside the index (the query vector has another
\* length than the index dimension) is reported as an error: answer_question
\* does not answer "no relevant information" for it, its confidence is error.
C24_IndexErrorsSurfaced ==
    (IsAnswer /\ ret.arg.embed.status = "ok"
       /\ Len(ret.arg.embed.vector) # Dim /\ Len(vectors) > 0) =>
        /\ ret.value.answer # NoInfoAnswer
        /\ ret.value.confidence = "error"

\* C26: the confidence of an answer is computed from the kept results whose
\* candidate resolves (those the context and the sources are built from), so
\* an answer without sources never has confidence high or medium.
C26_ConfidenceOfResolved ==
    (IsAnswer /\ ret.calls.generate = 1) =>
        LET resolved == SelectSeq(ret.kept,
                           LAMBDA r : Resolves(db, r.metadata.candidate_id))
        IN  /\ ret.value.confidence = EvaluateConfidence(resolved)
            /\ ret.value.sources = <<>>
                 => ret.value.confidence \notin {"high", "medium"}

\* The candidate c has a record in the index that is not tombstoned.
HasLiveRecord(c) ==
    \E p \in Positions(vectors) :
        MetaOf(metadata, p).candidate_id = c /\ ~MetaOf(metadata, p).removed

\* C27: when the candidate a question is scoped to has a record in the index
\* that is not tombstoned, answer_question makes no unscoped search and all
\* its sources are of that candidate, however far the candidate's records
\* are from the question.
C27_ScopedAnswerStaysInScope ==
    (IsAnswer /\ ret.arg.embed.status = "ok"
       /\ Len(ret.arg.embed.vector) = Dim
       /\ ret.arg.candidate_id \in Candidates
       /\ HasLiveRecord(ret.arg.candidate_id)) =>
        /\ ret.calls.search = <<ret.arg.candidate_id>>
        /\ \A j \in 1..Len(ret.value.sources) :
              ret.value.sources[j].candidate_id = ret.arg.candidate_id

\* C22: a query never omits a record that was committed (its upload had
\* returned 201) before the request began, whatever the uploads running
\* beside it do: the unscoped search, whose k exceeds the number of records,
\* returns a record of every such candidate.
C22_SearchSeesCommitted ==
    (ret.op = "query" /\ ret.arg = NoneVal) =>
        \A c \in ret.start.uploaded :
            \E i \in 1..Len(ret.kept) : ret.kept[i].metadata.candidate_id = c

\* C23: a FAISSIndex constructed while another request saves has read a
\* complete pair of files, the pair before the save or the pair after it
\* (both files as one save() wrote them, or both absent), never a file cut
\* short or files of two different saves; and no two requests are inside
\* save() at the same time.
C23_LoadSeesCompletePair ==
    /\ \A s \in Slots :
          reqs[s].pc \in LoadedPcs
            => <<reqs[s].seenIdx, reqs[s].seenMeta>> \in hist.pairs
    /\ \A s, t \in Slots :
          (s # t /\ reqs[s].pc \in InSave) => reqs[t].pc \notin InSave

\* C25: semantic_search on an index that holds records responds 200 with
\* the hits of the index search in their order, each with its candidate's
\* name.
C25_SearchRouteResponds ==
    (ret.op = "semantic_search" /\ Len(ret.inst.vectors) > 0) =>
        LET hits == SearchResult(ret.inst.vectors, ret.inst.metadata,
                                 Query(0, 0), DefaultTopK, ret.arg)
        IN  /\ ret.status = 200
            /\ Len(ret.value) = Len(hits)
            /\ \A i \in 1..Len(ret.value) :
                  i <= Len(hits) =>
                    /\ ret.value[i].candidate_id = hits[i].metadata.candidate_id
                    /\ ret.value[i].distance = hits[i].distance

\* C28: when no request is being served, the index on disk holds the chunk
\* (embedding and metadata) of every candidate whose upload returned 201,
\* also when the uploads overlapped.
C28_NoLostUpdate ==
    (\A s \in Slots : reqs[s].kind = "idle") =>
        \A c \in hist.uploaded : PersistedHolds(idxFile, metaFile, c)

\* C29: when an upload request returns, with 201 or with 500, its candidate
\* has its chunk in the index on disk or has no row in the candidates table.
C29_UploadConsistent ==
    [][\A s \in Slots :
          (reqs[s].kind = "upload" /\ reqs'[s].kind = "idle") =>
             (reqs[s].arg \in DOMAIN db'
                => PersistedHolds(idxFile', metaFile', reqs[s].arg))]_vars

\* C30: once the delete route has returned 200 for a candidate, the records
\* of that candidate in the index on disk are tombstoned, and a query that
\* begins afterwards, on its new FAISSIndex, gets no record of the candidate
\* from search and none from get_candidate_chunks.
C30_DeletedCandidateGone ==
    /\ \A c \in hist.deleted :
          LET md == LoadOrCreate(idxFile, metaFile).metadata
          IN  \A k \in DOMAIN md : md[k].candidate_id = c => md[k].removed
    /\ ret.op = "query" =>
          \A c \in ret.start.deleted :
             /\ \A i \in 1..Len(ret.kept) : ret.kept[i].metadata.candidate_id # c
             /\ GetCandidateChunksResult(ret.inst.metadata, c) = <<>>

====
